---- MODULE Spec2Model ----
(***************************************************************************)
(* A model of trust-dns's RecordSet (client/src/rr/rr_set.rs): the set of  *)
(* resource records of one (name, type) pair, its RFC 2136 insert/remove   *)
(* rules, the serial stamp and the rrsigs that every update invalidates.   *)
(***************************************************************************)
EXTENDS Integers, Sequences, FiniteSets, TLC

(***************************************************************************)
(* Bounds of the model.                                                    *)
(***************************************************************************)
NData == 2
MaxSoaSerial == 2
MaxRecords == 2
MaxRrsigs == 1
\* the signing algorithms and the signatures of a set that is read
NAlg == 2
MaxSigs == 2
\* the rdata of a set whose order is looked at
NOrder == 3
\* the calls of send on one connection, the events the event loop delivers
\* to one send, and the longest request (one past the u16 range and more)
MaxSends == 2
MaxEvents == 3
MaxMessageLen == 65800

Names == {"example.com", "other.com"}
\* the names a set is constructed with
SetNames == {"example.com"}
DNSClasses == {"IN", "CH"}
RecordTypes == {"A", "NS", "CNAME", "SOA", "ANY"}
\* the record types a set is constructed with: the three that insert or
\* remove name.  Every other type (A, ...) takes the `_ => ()` arm of both
\* matches, as NS does in insert and CNAME in remove.
SetTypes == {"NS", "CNAME", "SOA"}
\* ttl and serial are u32 values that the set copies and compares for
\* equality only: 0, the value of new(), with_ttl() and new_record(), and another
Ttls == {0, 3600}
Serials == {0, 1}

(***************************************************************************)
(* RData: a tagged union.  `kind` is the variant, `serial` the SOA serial  *)
(* number field (0 for the other variants), `data` the rest of the payload *)
(* (the algorithm for SIG).                                                *)
(***************************************************************************)
NullRData == [kind |-> "NULL", serial |-> 0, data |-> 0]
SoaRData == {[kind |-> "SOA", serial |-> s, data |-> d] : s \in 1..MaxSoaSerial, d \in 1..NData}
SigRData == {[kind |-> "SIG", serial |-> 0, data |-> 1]}
\* Algorithm: an enum ordered by its declaration, here by its number;
\* RSASHA1 is the first
Algorithms == 1..NAlg
RSASHA1 == 1
AlgRData == {[kind |-> "SIG", serial |-> 0, data |-> a] : a \in Algorithms}
\* SupportedAlgorithms: a set of algorithms, has() is membership
SupportedAlgorithmSets == SUBSET Algorithms
has(supported_algorithms, a) == a \in supported_algorithms
DataRData(k) == {[kind |-> k, serial |-> 0, data |-> d] : d \in 1..NData}
RDataOfType(t) == IF t = "SOA" THEN SoaRData ELSE DataRData(t)
\* the rdata a record of type t is called with: the other types only compare
\* rdata for equality, the SOA branch of insert also looks for the variant,
\* so an SOA record may carry NULL, the rdata that was never set
RecordRData(t) == IF t = "SOA" THEN SoaRData \cup {NullRData} ELSE DataRData(t)

to_record_type(rdata) == rdata.kind

\* Record::with(name, rr_type, ttl): class IN, rdata NULL
RecordWith(n, t, l) == [name |-> n, rr_type |-> t, dns_class |-> "IN", ttl |-> l, rdata |-> NullRData]
\* placeholder for the record argument of a call that takes none
NoRecord == [name |-> "", rr_type |-> "", dns_class |-> "", ttl |-> 0, rdata |-> NullRData]

VARIABLES name, record_type, dns_class, ttl, records, rrsigs, serial,
          op, arg, ret, prevLen, got, lastSoa,
          socket, event_loop, response, tcp_call

\* the fields of the RecordSet
fields == <<name, record_type, dns_class, ttl, records, rrsigs, serial>>
\* the last call: its name, its record argument, what it returned and the
\* number of records it found
call == <<op, arg, ret, prevLen>>
\* got: the arguments and the result of the call when it is get_records
NoRead == [and_rrsigs |-> FALSE, supported_algorithms |-> {}, result |-> <<>>]
\* the TcpClientConnection, the Response of the send that runs, and the
\* position of that send
tcp == <<socket, event_loop, response, tcp_call>>
record_set == <<name, record_type, dns_class, ttl, records, rrsigs, serial,
                op, arg, ret, prevLen, got, lastSoa>>
vars == <<name, record_type, dns_class, ttl, records, rrsigs, serial,
          op, arg, ret, prevLen, got, lastSoa,
          socket, event_loop, response, tcp_call>>
\* lastSoa: the serial number field of the SOA rdata that was stored last, 0
\* when none was yet
SoaSerialOf(recs, last) ==
    IF recs # <<>> /\ recs[1].rdata.kind = "SOA" THEN recs[1].rdata.serial ELSE last

\* Response::new(message, stream): `message` is the length of the request,
\* `buf` is <<>> for None and <<n>> for Some(n bytes), `stream` is what was
\* written to the TcpStream
ResponseNew(message) ==
    [state |-> "WillWrite", message |-> message, buf |-> <<>>, error |-> "None", stream |-> <<>>]
\* the position of send (pc), what the last send returned, the events and
\* what the handler did with them at its last call, the length it decoded,
\* whether the handler set `error` to Some during the send (recorded), and
\* the sends and events so far
NoCall == [pc |-> "idle", result |-> "none", events |-> {}, handled |-> "none",
           len |-> 0, recorded |-> FALSE, sends |-> 0, ticks |-> 0]
\* the record set knows of no connection
NoConnection ==
    /\ socket = "None" /\ event_loop = [timeout |-> FALSE, run |-> FALSE]
    /\ response = ResponseNew(0) /\ tcp_call = NoCall

(***************************************************************************)
(* Vec helpers.                                                            *)
(***************************************************************************)
\* a remove that fills the hole with the last element, as swap_remove does
VecRemove_Swap(v, i) == [j \in 1..(Len(v) - 1) |-> IF j = i THEN v[Len(v)] ELSE v[j]]

\* Vec::remove(i): removes element i, shifting the rest left
VecRemove(v, i) == [j \in 1..(Len(v) - 1) |-> IF j < i THEN v[j] ELSE v[j + 1]]
\* a swap_remove that drops the last element whatever the index
VecSwapRemove_DropsLast(v, i) == SubSeq(v, 1, Len(v) - 1)

\* Vec::swap_remove(i): removes element i, the last element takes its place
VecSwapRemove(v, i) == [j \in 1..(Len(v) - 1) |-> IF j = i THEN v[Len(v)] ELSE v[j]]
\* iter().enumerate().filter(rdata ==).map(index).collect()
MatchingIndexes(v, rdata) == SelectSeq([i \in 1..Len(v) |-> i], LAMBDA i : v[i].rdata = rdata)

(***************************************************************************)
(* Constructors.                                                           *)
(***************************************************************************)
New(n, t, s) ==
    /\ name = n /\ record_type = t /\ dns_class = "IN" /\ ttl = 0
    /\ records = <<>> /\ rrsigs = <<>> /\ serial = s
    /\ op = "new" /\ arg = NoRecord /\ ret = "unit"
    /\ prevLen = 0 /\ got = NoRead /\ lastSoa = SoaSerialOf(records, 0)

WithTtl(n, t, l) ==
    /\ name = n /\ record_type = t /\ dns_class = "IN" /\ ttl = l
    /\ records = <<>> /\ rrsigs = <<>> /\ serial = 0
    /\ op = "with_ttl" /\ arg = NoRecord /\ ret = "unit"
    /\ prevLen = 0 /\ got = NoRead /\ lastSoa = SoaSerialOf(records, 0)

From(record) ==
    /\ name = record.name /\ record_type = record.rr_type
    /\ dns_class = record.dns_class /\ ttl = record.ttl
    /\ records = <<record>> /\ rrsigs = <<>> /\ serial = 0
    /\ op = "from" /\ arg = record /\ ret = "unit"
    /\ prevLen = 0 /\ got = NoRead /\ lastSoa = SoaSerialOf(records, 0)

\* the records handed to from()
FromRecords == UNION {[name : SetNames, rr_type : {t}, dns_class : DNSClasses, ttl : Ttls,
                       rdata : RecordRData(t)] : t \in SetTypes}

Init ==
    /\ NoConnection
    /\ \/ \E n \in SetNames, t \in SetTypes, s \in Serials : New(n, t, s)
       \/ \E n \in SetNames, t \in SetTypes, l \in Ttls : WithTtl(n, t, l)
       \/ \E record \in FromRecords : From(record)

(***************************************************************************)
(* updated(serial): stamps the serial and drops the signatures.  The       *)
(* operators below compute the fields a call leaves behind from the fields *)
(* it finds; `st` is [records, ttl, serial, rrsigs].                       *)
(***************************************************************************)
\* updated() that forgets to drop the signatures
updated_KeepsRrsigs(st, s) == [st EXCEPT !.serial = s]

updated(st, s) == [st EXCEPT !.serial = s, !.rrsigs = <<>>]

\* insert's SOA branch with `<` for `<=`: an SOA of the stored serial passes
InsertPolicy_StrictLess(recs, record) ==
    IF record.rr_type = "SOA" /\ Len(recs) = 1
       /\ recs[1].rdata.kind = "SOA" /\ record.rdata.kind = "SOA"
    THEN IF record.rdata.serial < recs[1].rdata.serial THEN "reject" ELSE "proceed"
    ELSE IF Len(recs) > 1 /\ record.rr_type \in {"SOA", "CNAME"} THEN "panic"
    ELSE IF record.rr_type = "SOA" /\ Len(recs) = 1
         THEN IF recs[1].rdata.kind = "SOA" THEN "reject" ELSE "panic"
         ELSE "proceed"

\* insert's SOA branch with the comparison turned around: a newer SOA is rejected
InsertPolicy_Reversed(recs, record) ==
    IF record.rr_type = "SOA" /\ Len(recs) = 1
       /\ recs[1].rdata.kind = "SOA" /\ record.rdata.kind = "SOA"
    THEN IF record.rdata.serial >= recs[1].rdata.serial THEN "reject" ELSE "proceed"
    ELSE IF Len(recs) > 1 /\ record.rr_type \in {"SOA", "CNAME"} THEN "panic"
    ELSE IF record.rr_type = "SOA" /\ Len(recs) = 1
         THEN IF recs[1].rdata.kind = "SOA" THEN "reject" ELSE "panic"
         ELSE "proceed"

\* the type-specific first half of insert: "panic", "reject" or "proceed"
InsertPolicy(recs, record) ==
    IF record.rr_type = "SOA"
    THEN IF Len(recs) > 1 THEN "panic"
         ELSE IF Len(recs) = 1
              THEN IF recs[1].rdata.kind = "SOA"
                   THEN IF record.rdata.kind = "SOA"
                        THEN IF record.rdata.serial <= recs[1].rdata.serial
                             THEN "reject" ELSE "proceed"
                        ELSE "reject"
                   ELSE "panic"
              ELSE "proceed"
    ELSE IF record.rr_type = "CNAME"
         THEN IF Len(recs) > 1 THEN "panic" ELSE "proceed"
         ELSE "proceed"

\* insert that clears the records of a set of any type
InsertCleared_Always(recs, record) == <<>>

\* insert without the clear() of the SOA branch
InsertCleared_CnameOnly(recs, record) ==
    IF record.rr_type = "CNAME" THEN <<>> ELSE recs

\* insert without the clear() of the CNAME branch
InsertCleared_SoaOnly(recs, record) ==
    IF record.rr_type = "SOA" THEN <<>> ELSE recs

\* self.records.clear() of the SOA and CNAME branches
InsertCleared(recs, record) ==
    IF record.rr_type \in {"SOA", "CNAME"} THEN <<>> ELSE recs

\* for i in to_replace { ... }: st.ret is "false" on the early return,
\* "true" once a record was replaced, "none" while nothing happened
RECURSIVE ReplaceLoop(_, _, _, _)
ReplaceLoop(st, to_replace, record, s) ==
    IF to_replace = <<>> THEN st
    ELSE LET i == Head(to_replace) IN
         IF st.records[i] = record
         THEN [st EXCEPT !.ret = "false"]
         ELSE ReplaceLoop(
                updated([st EXCEPT !.records = VecSwapRemove(Append(st.records, record), i),
                                   !.ttl = record.ttl,
                                   !.ret = "true"], s),
                Tail(to_replace), record, s)

\* insert that appends without looking for a stored record of the same rdata
InsertData_AlwaysAppend(st, record, s) ==
    updated([st EXCEPT !.ttl = record.ttl,
                       !.records = Append(st.records, record),
                       !.ret = "true"], s)

\* insert whose append path leaves the ttl of the set alone
InsertData_KeepsTtl(st, record, s) ==
    LET to_replace == MatchingIndexes(st.records, record.rdata)
        looped == ReplaceLoop([st EXCEPT !.ret = "none"], to_replace, record, s)
    IN  IF looped.ret = "none"
        THEN updated([looped EXCEPT !.records = Append(looped.records, record),
                                    !.ret = "true"], s)
        ELSE looped

\* the second half of insert: replace the records of equal rdata, or append
InsertData(st, record, s) ==
    LET to_replace == MatchingIndexes(st.records, record.rdata)
        looped == ReplaceLoop([st EXCEPT !.ret = "none"], to_replace, record, s)
    IN  IF looped.ret = "none"
        THEN updated([looped EXCEPT !.ttl = record.ttl,
                                    !.records = Append(looped.records, record),
                                    !.ret = "true"], s)
        ELSE looped

\* insert that asserts the name of the record only
InsertResult_NameOnly(st, n, t, record, s) ==
    IF record.name # n
    THEN [st EXCEPT !.ret = "panic"]
    ELSE LET policy == InsertPolicy(st.records, record) IN
         IF policy = "panic" THEN [st EXCEPT !.ret = "panic"]
         ELSE IF policy = "reject" THEN [st EXCEPT !.ret = "false"]
         ELSE InsertData([st EXCEPT !.records = InsertCleared(st.records, record)], record, s)

\* insert without its two assertions
InsertResult_NoAssert(st, n, t, record, s) ==
    LET policy == InsertPolicy(st.records, record) IN
    IF policy = "panic" THEN [st EXCEPT !.ret = "panic"]
    ELSE IF policy = "reject" THEN [st EXCEPT !.ret = "false"]
    ELSE InsertData([st EXCEPT !.records = InsertCleared(st.records, record)], record, s)

\* insert(record, serial) on the set st of name n and type t
InsertResult(st, n, t, record, s) ==
    IF record.name # n \/ record.rr_type # t
    THEN [st EXCEPT !.ret = "panic"]
    ELSE LET policy == InsertPolicy(st.records, record) IN
         IF policy = "panic" THEN [st EXCEPT !.ret = "panic"]
         ELSE IF policy = "reject" THEN [st EXCEPT !.ret = "false"]
         ELSE InsertData([st EXCEPT !.records = InsertCleared(st.records, record)], record, s)

\* remove's loop without `removed = true`
RECURSIVE RemoveLoop_NoFlag(_, _, _)
RemoveLoop_NoFlag(st, to_remove, s) ==
    IF to_remove = <<>> THEN st
    ELSE LET i == Head(to_remove) IN
         IF i > Len(st.records)
         THEN [st EXCEPT !.ret = "panic"]
         ELSE RemoveLoop_NoFlag(updated([st EXCEPT !.records = VecRemove(st.records, i)], s),
                                Tail(to_remove), s)

\* for i in to_remove { self.records.remove(i); ... }: Vec::remove panics
\* on an index past the end
RECURSIVE RemoveLoop(_, _, _)
RemoveLoop(st, to_remove, s) ==
    IF to_remove = <<>> THEN st
    ELSE LET i == Head(to_remove) IN
         IF i > Len(st.records)
         THEN [st EXCEPT !.ret = "panic"]
         ELSE RemoveLoop(updated([st EXCEPT !.records = VecRemove(st.records, i),
                                            !.ret = "true"], s),
                         Tail(to_remove), s)

\* the policy of remove, decided on the type of the record argument
RemovePolicy(recs, record) ==
    IF record.rr_type = "NS"
    THEN IF Len(recs) <= 1 THEN "reject" ELSE "proceed"
    ELSE IF record.rr_type = "SOA" THEN "reject" ELSE "proceed"

\* remove(record, serial) on the set st of name n and type t
RemoveResult(st, n, t, record, s) ==
    IF record.name # n \/ ~(record.rr_type = t \/ record.rr_type = "ANY")
    THEN [st EXCEPT !.ret = "panic"]
    ELSE IF RemovePolicy(st.records, record) = "reject"
         THEN [st EXCEPT !.ret = "false"]
         ELSE RemoveLoop([st EXCEPT !.ret = "false"],
                         MatchingIndexes(st.records, record.rdata), s)

Self == [records |-> records, ttl |-> ttl, serial |-> serial, rrsigs |-> rrsigs, ret |-> ret]

\* stores what a call left behind
Becomes(st) ==
    /\ records' = st.records /\ ttl' = st.ttl /\ serial' = st.serial
    /\ rrsigs' = st.rrsigs /\ ret' = st.ret
    /\ got' = NoRead /\ lastSoa' = SoaSerialOf(st.records, lastSoa)
    /\ UNCHANGED tcp
    /\ UNCHANGED <<name, record_type, dns_class>>

\* a panic ends the program
Running == ret # "panic"

(***************************************************************************)
(* The arguments of insert and remove.  A record that fails the first      *)
(* assertions is not looked at any further, so one record stands for each  *)
(* kind of mismatch: another name, a type that only remove takes (ANY) and *)
(* a type that neither takes (A).  Insert compares whole records, so a     *)
(* record that passes them ranges over every class, ttl and rdata; remove  *)
(* reads the name, the type and the rdata only.                            *)
(***************************************************************************)
ArgRData == RecordRData(record_type)
WrongTypes(types) == {"ANY", "A"} \ types
MismatchedRecords(types) ==
    {RecordWith(n, record_type, 0) : n \in Names \ {name}}
    \cup {RecordWith(name, t, 0) : t \in WrongTypes(types)}
\* (the set never reads the class of a record: a record of class CH comes with ttl 0)
InsertRecords ==
    {record \in [name : {name}, rr_type : {record_type}, dns_class : DNSClasses,
                 ttl : Ttls, rdata : ArgRData] :
        record.dns_class = "IN" \/ record.ttl = 0}
RemoveRecords ==
    {[RecordWith(name, t, 0) EXCEPT !.rdata = rdata] : t \in {record_type, "ANY"}, rdata \in ArgRData}
\* the (record, serial) pairs of the calls
InsertCalls == (InsertRecords \X Serials) \cup (MismatchedRecords({record_type}) \X {0})
RemoveCalls == (RemoveRecords \X Serials) \cup (MismatchedRecords({record_type, "ANY"}) \X {0})

Insert(record, s) ==
    /\ Running
    /\ Becomes(InsertResult(Self, name, record_type, record, s))
    /\ op' = "insert" /\ arg' = record /\ prevLen' = Len(records)

Remove(record, s) ==
    /\ Running
    /\ Becomes(RemoveResult(Self, name, record_type, record, s))
    /\ op' = "remove" /\ arg' = record /\ prevLen' = Len(records)

\* new_record(rdata): insert(Record::with(name, type, ttl) + rdata, 0), then
\* find the record of that rdata
NewRecordResult(st, n, t, rdata) ==
    IF t # to_record_type(rdata) THEN [st EXCEPT !.ret = "panic"]
    ELSE LET record == [RecordWith(n, t, st.ttl) EXCEPT !.rdata = rdata]
             ins == InsertResult(st, n, t, record, 0)
         IN  IF ins.ret = "panic" THEN ins
             ELSE IF \E i \in 1..Len(ins.records) : ins.records[i].rdata = rdata
                  THEN [ins EXCEPT !.ret = "record"]
                  ELSE [ins EXCEPT !.ret = "panic"]

NewRecord(rdata) ==
    /\ Running
    /\ Becomes(NewRecordResult(Self, name, record_type, rdata))
    /\ op' = "new_record"
    /\ arg' = [RecordWith(name, record_type, ttl) EXCEPT !.rdata = rdata]
    /\ prevLen' = Len(records)

SetDnsClass(c) ==
    /\ Running
    /\ dns_class' = c
    /\ records' = [i \in 1..Len(records) |-> [records[i] EXCEPT !.dns_class = c]]
    /\ op' = "set_dns_class" /\ arg' = NoRecord /\ ret' = "unit"
    /\ prevLen' = Len(records) /\ got' = NoRead /\ UNCHANGED <<lastSoa, tcp>>
    /\ UNCHANGED <<name, record_type, ttl, rrsigs, serial>>

\* set_ttl without the loop over the records
SetTtl_FieldOnly(l) ==
    /\ Running
    /\ ttl' = l
    /\ op' = "set_ttl" /\ arg' = NoRecord /\ ret' = "unit"
    /\ prevLen' = Len(records) /\ got' = NoRead /\ UNCHANGED <<lastSoa, tcp>>
    /\ UNCHANGED <<name, record_type, dns_class, records, rrsigs, serial>>

SetTtl(l) ==
    /\ Running
    /\ ttl' = l
    /\ records' = [i \in 1..Len(records) |-> [records[i] EXCEPT !.ttl = l]]
    /\ op' = "set_ttl" /\ arg' = NoRecord /\ ret' = "unit"
    /\ prevLen' = Len(records) /\ got' = NoRead /\ UNCHANGED <<lastSoa, tcp>>
    /\ UNCHANGED <<name, record_type, dns_class, rrsigs, serial>>

\* the signature records handed to insert_rrsig
RrsigRecords == {[RecordWith(name, "RRSIG", 0) EXCEPT !.rdata = sig] : sig \in SigRData}

\* the signature records handed to insert_rrsig of a set that is read: one
\* for each algorithm, and one whose rdata is not a signature
SigRecords ==
    {[RecordWith(name, "RRSIG", 0) EXCEPT !.rdata = sig] : sig \in AlgRData \cup {NullRData}}

InsertRrsig(rrsig) ==
    /\ Running
    /\ rrsigs' = Append(rrsigs, rrsig)
    /\ op' = "insert_rrsig" /\ arg' = rrsig /\ ret' = "unit"
    /\ prevLen' = Len(records) /\ got' = NoRead /\ UNCHANGED <<lastSoa, tcp>>
    /\ UNCHANGED <<name, record_type, dns_class, ttl, records, serial>>

ClearRrsigs ==
    /\ Running
    /\ rrsigs' = <<>>
    /\ op' = "clear_rrsigs" /\ arg' = NoRecord /\ ret' = "unit"
    /\ prevLen' = Len(records) /\ got' = NoRead /\ UNCHANGED <<lastSoa, tcp>>
    /\ UNCHANGED <<name, record_type, dns_class, ttl, records, serial>>

Next ==
    \/ \E c \in InsertCalls : Insert(c[1], c[2]) /\ Len(records') <= MaxRecords
    \/ \E c \in RemoveCalls : Remove(c[1], c[2])
    \/ \E rdata \in RDataOfType(record_type) \cup {NullRData} :
          NewRecord(rdata) /\ Len(records') <= MaxRecords
    \/ \E c \in DNSClasses : SetDnsClass(c)
    \/ \E l \in Ttls : SetTtl(l)
    \/ \E rrsig \in RrsigRecords : Len(rrsigs) < MaxRrsigs /\ InsertRrsig(rrsig)
    \/ ClearRrsigs

Spec == Init /\ [][Next]_vars

(***************************************************************************)
(* Reading the set.  get_records is a function of records, rrsigs and its  *)
(* arguments; SpecRead applies it to NS sets built by from(), new() and    *)
(* new_record() and signed with up to MaxSigs signatures.                  *)
(***************************************************************************)
\* the key of max_by_key: the algorithm of a signature
AlgorithmKey(record) ==
    IF record.rdata.kind = "SIG" THEN record.rdata.data ELSE RSASHA1

\* a max_by_key that takes the first element
MaxByKey_First(v) ==
    IF v = <<>> THEN <<>> ELSE <<v[1]>>

\* Iterator::max_by_key: None for no element, else the last of the
\* elements of the greatest key
MaxByKey(v) ==
    IF v = <<>> THEN <<>>
    ELSE LET m == CHOOSE i \in 1..Len(v) :
                    \A j \in 1..Len(v) :
                        \/ AlgorithmKey(v[j]) < AlgorithmKey(v[i])
                        \/ (AlgorithmKey(v[j]) = AlgorithmKey(v[i]) /\ j <= i)
         IN  <<v[m]>>

\* the signatures whose algorithm is supported
SupportedRrsigs(sigs, supported_algorithms) ==
    SelectSeq(sigs, LAMBDA record : IF record.rdata.kind = "SIG"
                                    THEN has(supported_algorithms, record.rdata.data)
                                    ELSE FALSE)

\* get_records that chains every supported signature
get_records_AllSupported(recs, sigs, and_rrsigs, supported_algorithms) ==
    IF and_rrsigs THEN recs \o SupportedRrsigs(sigs, supported_algorithms) ELSE recs

get_records(recs, sigs, and_rrsigs, supported_algorithms) ==
    IF and_rrsigs
    THEN recs \o MaxByKey(SupportedRrsigs(sigs, supported_algorithms))
    ELSE recs

GetRecords(and_rrsigs, supported_algorithms) ==
    /\ Running
    /\ got' = [and_rrsigs |-> and_rrsigs, supported_algorithms |-> supported_algorithms,
               result |-> get_records(records, rrsigs, and_rrsigs, supported_algorithms)]
    /\ op' = "get_records" /\ arg' = NoRecord /\ ret' = "vec"
    /\ prevLen' = Len(records) /\ UNCHANGED <<lastSoa, tcp>>
    /\ UNCHANGED fields

InitRead ==
    /\ NoConnection
    /\ \/ \E n \in SetNames, s \in Serials : New(n, "NS", s)
       \/ \E record \in FromRecords : record.rr_type = "NS" /\ From(record)

NextRead ==
    \/ \E rdata \in RDataOfType(record_type) :
          NewRecord(rdata) /\ Len(records') <= MaxRecords
    \/ \E rrsig \in SigRecords : Len(rrsigs) < MaxSigs /\ InsertRrsig(rrsig)
    \/ ClearRrsigs
    \/ \E and_rrsigs \in BOOLEAN, supported_algorithms \in SupportedAlgorithmSets :
          GetRecords(and_rrsigs, supported_algorithms)

SpecRead == InitRead /\ [][NextRead]_vars

(***************************************************************************)
(* The order of the records.  SpecOrder inserts into and removes from an   *)
(* NS set records of NOrder rdata, enough for a removal to leave records   *)
(* on either side of the hole.                                             *)
(***************************************************************************)
OrderRData == {[kind |-> "NS", serial |-> 0, data |-> d] : d \in 1..NOrder}
\* the records inserted: of one class and ttl, or of the other class and ttl
OrderRecords ==
    {[name |-> name, rr_type |-> "NS", dns_class |-> c[1], ttl |-> c[2], rdata |-> rdata] :
        c \in {<<"IN", 0>>, <<"CH", 3600>>}, rdata \in OrderRData}
\* the records removed: of the set's type or of type ANY
OrderRemoved ==
    {[RecordWith(name, t, 0) EXCEPT !.rdata = rdata] : t \in {"NS", "ANY"}, rdata \in OrderRData}

InitOrder == NoConnection /\ \E n \in SetNames, s \in Serials : New(n, "NS", s)

NextOrder ==
    \/ \E record \in OrderRecords, s \in Serials : Insert(record, s) /\ Len(records') <= NOrder
    \/ \E record \in OrderRemoved, s \in Serials : Remove(record, s)

SpecOrder == InitOrder /\ [][NextOrder]_vars

(***************************************************************************)
(* TcpClientConnection (src/tcp/tcp_client_connection.rs): send() hands    *)
(* its socket to a Response, runs the event loop on it until the handler   *)
(* shuts the loop down, and takes the socket back.  The event loop, the    *)
(* stream and the peer are the environment: they deliver any events and    *)
(* any i/o outcome.                                                        *)
(***************************************************************************)
\* the bit operations of the two length bytes, on usize and u16
ShiftRight8(x) == x \div 256
AndFF(x) == x % 256
ShiftLeft8(x) == (x * 256) % 65536
AndFF00(x) == ((x \div 256) % 256) * 256
\* `|` of a value whose low byte is 0 and a value below 256
BitOr(hi, lo) == hi + lo

\* the length bytes with the low byte first
EncodeLen_LowFirst(l) == <<AndFF(l), AndFF(ShiftRight8(l))>>

\* [(len >> 8 & 0xFF) as u8, (len & 0xFF) as u8]
EncodeLen(l) == <<AndFF(ShiftRight8(l)), AndFF(l)>>
\* (len_bytes[0] as u16) << 8 & 0xFF00 | len_bytes[1] as u16 & 0x00FF
DecodeLen(len_bytes) == BitOr(AndFF00(ShiftLeft8(len_bytes[1])), AndFF(len_bytes[2]))

EventSets == SUBSET {"readable", "writable", "error", "hup"}
\* what the stream does to a write or a read: all of it, an error, fewer
\* bytes; `1` is the first write or read of the branch, `2` the second
IoOutcomes == {"ok", "err1", "short1", "err2", "short2"}
\* the length bytes a peer sends
PeerLenBytes == {<<0, 0>>, <<0, 2>>, <<1, 0>>}
\* the lengths of the requests
MessageLens == {0, 2, 65536}

\* TcpClientConnection::new() that returned Ok: the timeout is armed
TcpNew ==
    /\ socket = "Some" /\ event_loop = [timeout |-> TRUE, run |-> FALSE]
    /\ response = ResponseNew(0) /\ tcp_call = NoCall

\* the record set of a program that only uses the connection
NoRecordSet == \E n \in SetNames : New(n, "NS", 0)

\* send() up to event_loop.run(): expect("never none"), reregister, the
\* Response takes the socket
Send(buffer, reregistered) ==
    /\ tcp_call.pc = "idle"
    /\ IF socket = "None"
       THEN /\ tcp_call' = [tcp_call EXCEPT !.pc = "panic", !.sends = @ + 1]
            /\ UNCHANGED <<socket, event_loop, response>>
       ELSE IF ~reregistered
       THEN /\ tcp_call' = [tcp_call EXCEPT !.result = "Err", !.sends = @ + 1]
            /\ UNCHANGED <<socket, event_loop, response>>
       ELSE /\ socket' = "None"
            /\ response' = ResponseNew(buffer)
            /\ event_loop' = [event_loop EXCEPT !.run = TRUE]
            /\ tcp_call' = [tcp_call EXCEPT !.pc = "run", !.result = "none", !.events = {},
                                            !.handled = "none", !.len = 0, !.recorded = FALSE,
                                            !.sends = @ + 1, !.ticks = 0]
    /\ UNCHANGED record_set

\* the writable branch of ready()
ReadyWritable(r, io) ==
    IF io = "err1" THEN [r EXCEPT !.error = "Io"]
    ELSE [r EXCEPT !.stream = Append(@, [len |-> EncodeLen(r.message), message |-> r.message]),
                   !.error = IF io = "err2" THEN "Io" ELSE "None"]

\* the readable branch of ready(): the response, and whether the loop is shut down
ReadyReadable(r, io, len_bytes) ==
    IF io = "short1" THEN [response |-> [r EXCEPT !.error = "NotAllBytesReceived"], shutdown |-> FALSE]
    ELSE IF io = "err1" THEN [response |-> [r EXCEPT !.error = "Io"], shutdown |-> FALSE]
    ELSE IF io = "short2" THEN [response |-> [r EXCEPT !.error = "NotAllBytesReceived"], shutdown |-> FALSE]
    ELSE IF io = "err2" THEN [response |-> [r EXCEPT !.error = "Io"], shutdown |-> FALSE]
    ELSE [response |-> [r EXCEPT !.buf = <<DecodeLen(len_bytes)>>], shutdown |-> TRUE]

\* Handler::ready(event_loop, RESPONSE, events)
Ready(events, io, len_bytes) ==
    /\ tcp_call.pc = "run" /\ event_loop.run
    /\ IF "writable" \in events
       THEN /\ response' = ReadyWritable(response, io)
            /\ tcp_call' = [tcp_call EXCEPT !.events = events, !.handled = "write", !.ticks = @ + 1,
                                            !.recorded = @ \/ io \in {"err1", "err2"}]
            /\ UNCHANGED event_loop
       ELSE IF "readable" \in events
       THEN LET read == ReadyReadable(response, io, len_bytes) IN
            /\ response' = read.response
            /\ event_loop' = [event_loop EXCEPT !.run = ~read.shutdown]
            /\ tcp_call' = [tcp_call EXCEPT !.events = events, !.handled = "read", !.ticks = @ + 1,
                                            !.recorded = @ \/ io # "ok",
                                            !.len = IF io \in {"short1", "err1"} THEN @
                                                    ELSE DecodeLen(len_bytes)]
       ELSE IF "error" \in events \/ "hup" \in events
       THEN /\ response' = [response EXCEPT !.error = "NoDataReceived"]
            /\ event_loop' = [event_loop EXCEPT !.run = FALSE]
            /\ tcp_call' = [tcp_call EXCEPT !.events = events, !.handled = "hup", !.ticks = @ + 1,
                                            !.recorded = TRUE]
       ELSE /\ tcp_call' = [tcp_call EXCEPT !.events = events, !.handled = "none", !.ticks = @ + 1]
            /\ UNCHANGED <<response, event_loop>>
    /\ UNCHANGED <<socket, record_set>>

\* Handler::timeout(): the timeout armed in new() fires while the loop runs
Timeout ==
    /\ tcp_call.pc = "run" /\ event_loop.run /\ event_loop.timeout
    /\ response' = [response EXCEPT !.error = "TimedOut"]
    /\ event_loop' = [timeout |-> FALSE, run |-> FALSE]
    /\ tcp_call' = [tcp_call EXCEPT !.events = {}, !.handled = "timeout", !.recorded = TRUE]
    /\ UNCHANGED <<socket, record_set>>

\* try!(self.event_loop.run(&mut response)) on an Err of the event loop
RunFails ==
    /\ tcp_call.pc = "run" /\ event_loop.run
    /\ event_loop' = [event_loop EXCEPT !.run = FALSE]
    /\ tcp_call' = [tcp_call EXCEPT !.pc = "idle", !.result = "Err"]
    /\ UNCHANGED <<socket, response, record_set>>

\* send() after event_loop.run() returned
SendReturns ==
    /\ tcp_call.pc = "run" /\ ~event_loop.run
    /\ IF response.error # "None" \/ response.buf = <<>>
       THEN /\ tcp_call' = [tcp_call EXCEPT !.pc = "idle", !.result = "Err"]
            /\ UNCHANGED socket
       ELSE /\ tcp_call' = [tcp_call EXCEPT !.pc = "idle", !.result = "Ok"]
            /\ socket' = "Some"
    /\ UNCHANGED <<event_loop, response, record_set>>

InitTcp == NoRecordSet /\ TcpNew

NextTcp ==
    \/ /\ tcp_call.sends < MaxSends
       /\ \E buffer \in MessageLens, reregistered \in BOOLEAN : Send(buffer, reregistered)
    \/ /\ tcp_call.ticks < MaxEvents
       /\ \E events \in EventSets, io \in IoOutcomes, len_bytes \in PeerLenBytes :
            Ready(events, io, len_bytes)
    \/ Timeout
    \/ RunFails
    \/ SendReturns

SpecTcp == InitTcp /\ [][NextTcp]_vars

\* The event loop fires a timeout that is armed while it runs, and run()
\* returns to send() once the loop is shut down; events and i/o stay the
\* environment's.
FairTcp == WF_vars(Timeout) /\ WF_vars(SendReturns)

SpecTcpFair == SpecTcp /\ FairTcp

\* The length bytes over every length: one send of a request of any length
\* up to MaxMessageLen to a peer that answers with the length bytes it got.
NextPrefix ==
    \/ tcp_call.sends = 0 /\ \E buffer \in 0..MaxMessageLen : Send(buffer, TRUE)
    \/ response.stream = <<>> /\ Ready({"writable"}, "ok", <<0, 0>>)
    \/ response.stream # <<>> /\ Ready({"readable"}, "ok", response.stream[1].len)
    \/ SendReturns

SpecPrefix == InitTcp /\ [][NextPrefix]_vars

(***************************************************************************)
(* Properties of the record set.                                           *)
(***************************************************************************)
\* the record argument of the last call passed the assertions of insert
InsertAccepts == arg.name = name /\ arg.rr_type = record_type
\* the record argument of the last call passed the assertions of remove
RemoveAccepts == arg.name = name /\ arg.rr_type \in {record_type, "ANY"}
\* the set is an SOA set that holds an SOA record
HoldsSoa ==
    record_type = "SOA" /\ Len(records) = 1 /\ records[1].rdata.kind = "SOA"

\* C1. Uniqueness: no two records stored in `records` have equal rdata.
C1_Uniqueness ==
    \A i, j \in 1..Len(records) : i # j => records[i].rdata # records[j].rdata

\* an insert into a set of two records returned true and left two: it met a
\* stored record of its rdata and replaced it
C1_Witness ==
    /\ op = "insert" /\ ret = "true" /\ record_type = "NS"
    /\ prevLen = 2 /\ Len(records) = 2
    /\ \E i \in 1..2 : records[i] = arg

\* C2. Singleton types: a set whose record_type is SOA or CNAME holds at most
\* one record, so the length assertions of insert hold whenever they are reached.
C2_SingletonTypes ==
    record_type \in {"SOA", "CNAME"} => Len(records) <= 1

\* an SOA set that held a record took an insert of another one
C2_Witness ==
    /\ op = "insert" /\ ret = "true" /\ HoldsSoa
    /\ prevLen = 1 /\ records = <<arg>>

\* C3. Stale SOA rejection: insert of an SOA record whose serial field is less
\* than or equal to the stored SOA's returns false and leaves records, ttl,
\* serial and rrsigs unchanged, even when the other rdata fields differ.
C3_StaleSoaRejected ==
    [][(/\ op' = "insert" /\ HoldsSoa
        /\ arg'.name = name /\ arg'.rr_type = "SOA" /\ arg'.rdata.kind = "SOA"
        /\ arg'.rdata.serial <= records[1].rdata.serial)
       => (ret' = "false" /\ UNCHANGED <<records, ttl, serial, rrsigs>>)]_vars

\* an SOA of the stored serial and other data was rejected by a signed set
C3_Witness ==
    /\ op = "insert" /\ ret = "false" /\ HoldsSoa /\ InsertAccepts
    /\ prevLen = 1 /\ arg.rdata.kind = "SOA"
    /\ arg.rdata.serial = records[1].rdata.serial
    /\ arg.rdata.data # records[1].rdata.data
    /\ rrsigs # <<>> /\ ttl # arg.ttl

\* C4. SOA replacement: insert of an SOA record whose serial field is strictly
\* greater than the stored SOA's returns true, and afterwards the set holds
\* exactly the new record and not the prior SOA.
C4_SoaReplaced ==
    [][(/\ op' = "insert" /\ HoldsSoa
        /\ arg'.name = name /\ arg'.rr_type = "SOA" /\ arg'.rdata.kind = "SOA"
        /\ arg'.rdata.serial > records[1].rdata.serial)
       => (/\ ret' = "true" /\ records' = <<arg'>>
           /\ \A i \in 1..Len(records') : records'[i] # records[1])]_vars

\* an SOA of the greatest serial took the place of the stored one
C4_Witness ==
    /\ op = "insert" /\ ret = "true" /\ HoldsSoa /\ InsertAccepts
    /\ prevLen = 1 /\ records = <<arg>>
    /\ arg.rdata.serial = MaxSoaSerial /\ serial = 1

\* C5. CNAME replacement: in a CNAME set that stores a record, insert of any
\* CNAME record leaves exactly the inserted record in the set.
C5_CnameReplaced ==
    [][(/\ op' = "insert" /\ record_type = "CNAME" /\ Len(records) >= 1
        /\ arg'.name = name /\ arg'.rr_type = "CNAME")
       => (/\ records' = <<arg'>>
           /\ \A i \in 1..Len(records) :
                records[i] # arg' => \A j \in 1..Len(records') : records'[j] # records[i])]_vars

\* a CNAME took the place of the stored one
C5_Witness ==
    /\ op = "insert" /\ record_type = "CNAME" /\ InsertAccepts
    /\ ret = "true" /\ prevLen = 1 /\ records = <<arg>>

\* C6. NS floor: no remove whose record passes the assertions (the set's name,
\* type NS or ANY) takes an NS set from non-empty to empty.
C6_NsFloor ==
    (/\ op = "remove" /\ record_type = "NS" /\ RemoveAccepts
     /\ prevLen >= 1)
    => records # <<>>

\* C7. SOA is never removable: in an SOA set every remove whose record passes
\* the assertions (type SOA or ANY) returns false and leaves the set alone.
C7_SoaNeverRemoved ==
    [][(/\ op' = "remove" /\ record_type = "SOA"
        /\ arg'.name = name /\ arg'.rr_type \in {"SOA", "ANY"})
       => (ret' = "false" /\ UNCHANGED <<records, ttl, serial, rrsigs>>)]_vars

\* C8. Signature invalidation and serial stamping: right after an insert or
\* remove that returned true, rrsigs is empty and serial is the serial argument.
C8_UpdatedOnSuccess ==
    [][(op' \in {"insert", "remove"} /\ ret' = "true")
       => \A s \in Serials :
            (IF op' = "insert" THEN Insert(arg', s) ELSE Remove(arg', s))
            => (rrsigs' = <<>> /\ serial' = s)]_vars

\* a remove that took a record out and stamped a serial other than new()'s
C8_Witness ==
    /\ op = "remove" /\ ret = "true"
    /\ serial = 1 /\ rrsigs = <<>>
    /\ records # <<>> /\ Len(records) < prevLen

\* C9. insert returns true if and only if records, ttl, serial or rrsigs
\* differ after the call from what they were before it.
C9_InsertTrueIffChanged ==
    [][(op' = "insert" /\ ret' # "panic")
       => ((ret' = "true") <=> ~(UNCHANGED <<records, ttl, serial, rrsigs>>))]_vars

\* C10. remove returns true if and only if the record count strictly
\* decreased; when it returns false, records, ttl, serial and rrsigs are
\* unchanged, and a second remove of the same record returns false.
C10_RemoveTrueIffRemoved ==
    [][(op' = "remove" /\ arg'.name = name /\ arg'.rr_type \in {record_type, "ANY"})
       => (/\ ret' \in {"true", "false"}
           /\ (ret' = "true") <=> (Len(records') < Len(records))
           /\ ret' = "false" => UNCHANGED <<records, ttl, serial, rrsigs>>
           /\ (op = "remove" /\ ret = "true" /\ arg' = arg) => ret' = "false")]_vars

\* a remove of an rdata that a signed, non-empty set does not store
C10_Witness ==
    /\ op = "remove" /\ ret = "false" /\ RemoveAccepts
    /\ \A i \in 1..Len(records) : records[i].rdata # arg.rdata
    /\ records # <<>> /\ rrsigs # <<>> /\ prevLen = Len(records)

\* C11. Idempotent duplicate insert: insert of a record equal in all fields to
\* a stored record returns false and leaves records, serial and rrsigs unchanged.
C11_DuplicateInsertIgnored ==
    [][(/\ op' = "insert" /\ arg'.name = name /\ arg'.rr_type = record_type
        /\ \E i \in 1..Len(records) : records[i] = arg')
       => (ret' = "false" /\ UNCHANGED <<records, serial, rrsigs>>)]_vars

\* C12. Replace on data match: in a set of a type other than SOA and CNAME,
\* insert of a record that has the rdata of a stored record but is not equal to
\* it returns true, keeps the record count, and the stored record of that rdata
\* is afterwards the inserted record.
C12_ReplaceOnDataMatch ==
    [][(/\ op' = "insert" /\ record_type \notin {"SOA", "CNAME"}
        /\ arg'.name = name /\ arg'.rr_type = record_type
        /\ \E i \in 1..Len(records) : records[i].rdata = arg'.rdata /\ records[i] # arg')
       => (/\ ret' = "true" /\ Len(records') = Len(records)
           /\ \E j \in 1..Len(records') : records'[j] = arg'
           /\ \A j \in 1..Len(records') :
                records'[j].rdata = arg'.rdata => records'[j] = arg')]_vars

\* a record of class CH took the slot of the first of two stored records
C12_Witness ==
    /\ op = "insert" /\ ret = "true" /\ record_type = "NS"
    /\ prevLen = 2 /\ Len(records) = 2
    /\ records[1] = arg /\ arg.dns_class = "CH" /\ records[2].dns_class = "IN"
    /\ serial = 1 /\ rrsigs = <<>>

\* C13. TTL last-write-wins: after an insert that returned true the ttl of the
\* set is the ttl of the inserted record; after one that returned false the
\* ttl is what it was.
C13_TtlLastWriteWins ==
    [][(op' = "insert")
       => (/\ ret' = "true" => ttl' = arg'.ttl
           /\ ret' = "false" => ttl' = ttl)]_vars

\* the set took the ttl of the record appended last, next to a record of another ttl
C13_Witness ==
    /\ op = "insert" /\ ret = "true"
    /\ Len(records) = 2 /\ prevLen = 1
    /\ records[2] = arg /\ arg.ttl = 0 /\ ttl = 0
    /\ records[1].ttl = 3600

\* the signature that the last get_records chained after the records
ReadSignature == SubSeq(got.result, Len(records) + 1, Len(got.result))
\* the stored signatures of a supported algorithm
StoredSupported ==
    {i \in 1..Len(rrsigs) : /\ rrsigs[i].rdata.kind = "SIG"
                            /\ rrsigs[i].rdata.data \in got.supported_algorithms}

\* C14. Shape of the read result: get_records(false, S) is the stored records
\* in order; get_records(true, S) is the stored records in order followed by at
\* most one element of rrsigs, and by none when no stored rrsig has an
\* algorithm in S.
C14_ReadShape ==
    (op = "get_records")
    => (/\ Len(got.result) >= Len(records)
        /\ SubSeq(got.result, 1, Len(records)) = records
        /\ ~got.and_rrsigs => got.result = records
        /\ Len(ReadSignature) <= 1
        /\ \A k \in 1..Len(ReadSignature) : \E i \in 1..Len(rrsigs) : rrsigs[i] = ReadSignature[k]
        /\ StoredSupported = {} => got.result = records)

\* two records were read with one of the two supported signatures stored
C14_Witness ==
    /\ op = "get_records" /\ got.and_rrsigs
    /\ Len(records) = 2 /\ Len(rrsigs) = 2 /\ Cardinality(StoredSupported) = 2
    /\ Len(got.result) = 3

\* C15. Signature selection: the signature that get_records(true, S) returns
\* has an algorithm of S that is no lower than the algorithm of any stored
\* rrsig of an algorithm in S; and one is returned whenever one is stored.
C15_ReadSelectsHighest ==
    (op = "get_records" /\ got.and_rrsigs)
    => (/\ StoredSupported # {} => Len(ReadSignature) = 1
        /\ \A k \in 1..Len(ReadSignature) :
             /\ ReadSignature[k].rdata.kind = "SIG"
             /\ ReadSignature[k].rdata.data \in got.supported_algorithms
             /\ \A i \in StoredSupported : rrsigs[i].rdata.data <= ReadSignature[k].rdata.data)

\* with the higher algorithm stored first and both supported, the read
\* returned the higher one
C15_Witness ==
    /\ op = "get_records" /\ got.and_rrsigs
    /\ got.supported_algorithms = {1, 2}
    /\ Len(rrsigs) = 2 /\ rrsigs[1].rdata.data = 2 /\ rrsigs[2].rdata.data = 1
    /\ Len(ReadSignature) = 1 /\ ReadSignature[1] = rrsigs[1]

\* C16. new_record guarantee: new_record of an rdata of the set's type returns
\* normally and a record of that rdata is stored afterwards.
C16_NewRecordStored ==
    (op = "new_record" /\ to_record_type(arg.rdata) = record_type)
    => (ret = "record" /\ \E i \in 1..Len(records) : records[i].rdata = arg.rdata)

\* C17. rrsigs are invalidated by every change of records: when insert,
\* remove, new_record, set_ttl or set_dns_class leaves records other than it
\* found them, rrsigs is empty afterwards.
C17_ChangeClearsRrsigs ==
    [][(/\ op' \in {"insert", "remove", "new_record", "set_ttl", "set_dns_class"}
        /\ records' # records)
       => rrsigs' = <<>>]_vars

\* C18. Malformed SOA input is rejected: insert into an SOA set of a record of
\* type SOA whose rdata is not SOA returns false and leaves the set unchanged,
\* whether or not the set stores a record.
C18_MalformedSoaRejected ==
    [][(/\ op' = "insert" /\ record_type = "SOA"
        /\ arg'.name = name /\ arg'.rr_type = "SOA" /\ arg'.rdata.kind # "SOA")
       => (ret' = "false" /\ UNCHANGED fields)]_vars

\* C19. set_dns_class(c) and set_ttl(t) return normally; afterwards the class
\* (the ttl) of the set and of every stored record is the given value, and the
\* number of records, the rdata of each and the serial are what they were.
C19_SettersReachEveryRecord ==
    [][(op' \in {"set_dns_class", "set_ttl"})
       => (/\ ret' = "unit"
           /\ Len(records') = Len(records)
           /\ \A i \in 1..Len(records) : records'[i].rdata = records[i].rdata
           /\ serial' = serial
           /\ op' = "set_dns_class" =>
                \E c \in DNSClasses :
                    /\ SetDnsClass(c) /\ dns_class' = c
                    /\ \A i \in 1..Len(records') : records'[i].dns_class = c
           /\ op' = "set_ttl" =>
                \E l \in Ttls :
                    /\ SetTtl(l) /\ ttl' = l
                    /\ \A i \in 1..Len(records') : records'[i].ttl = l)]_vars

\* set_ttl reached the two records of a signed set
C19_Witness ==
    /\ op = "set_ttl" /\ ret = "unit" /\ ttl = 3600
    /\ Len(records) = 2 /\ \A i \in 1..2 : records[i].ttl = 3600
    /\ \E i \in 1..2 : records[i].dns_class = "CH"
    /\ serial = 1 /\ rrsigs # <<>>

\* C20. Precondition violations abort without mutation: insert of a record of
\* another name or type, and remove of a record of another name or of a type
\* that is neither the set's nor ANY, panic before any field is written.
C20_PreconditionsAbort ==
    [][(\/ op' = "insert" /\ (arg'.name # name \/ arg'.rr_type # record_type)
        \/ op' = "remove" /\ (arg'.name # name \/ arg'.rr_type \notin {record_type, "ANY"}))
       => (ret' = "panic" /\ UNCHANGED fields)]_vars

\* insert of a record of type ANY panicked on a signed set of two records
C20_Witness ==
    /\ op = "insert" /\ ret = "panic" /\ arg.rr_type = "ANY" /\ arg.name = name
    /\ Len(records) = 2 /\ rrsigs # <<>>

\* C21. Membership: every stored record has the name and the type of the set.
C21_Membership ==
    \A i \in 1..Len(records) :
        records[i].name = name /\ records[i].rr_type = record_type

\* insert stored a second record of the set's name and type in a set of class CH
C21_Witness ==
    /\ op = "insert" /\ ret = "true" /\ record_type = "NS"
    /\ prevLen = 1 /\ Len(records) = 2 /\ records[2] = arg
    /\ dns_class = "CH" /\ serial = 1

\* C22. Remove matches by rdata only and touches nothing else: a remove that
\* the NS and SOA policies let through leaves exactly the stored records of
\* another rdata, unmodified and in their order.
C22_RemoveByRdata ==
    [][(/\ op' = "remove" /\ arg'.name = name /\ arg'.rr_type \in {record_type, "ANY"}
        /\ ~(arg'.rr_type = "NS" /\ Len(records) <= 1) /\ arg'.rr_type # "SOA")
       => records' = SelectSeq(records, LAMBDA r : r.rdata # arg'.rdata)]_vars

\* the first of three records was removed: the other two, of another class
\* and ttl than the argument, kept their order
C22_Witness ==
    /\ op = "remove" /\ ret = "true" /\ prevLen = 3 /\ Len(records) = 2
    /\ arg.rdata.data = 1 /\ records[1].rdata.data = 2 /\ records[2].rdata.data = 3
    /\ \A i \in 1..2 : records[i].dns_class = "CH" /\ records[i].ttl = 3600

\* C23. SOA serial monotonicity: across insert, remove and new_record calls on
\* an SOA set, the serial number field of the stored SOA is never lower than
\* that of the SOA stored before it, and is greater whenever a call leaves
\* another SOA record than it found.
C23_SoaSerialMonotonic ==
    [][(/\ op' \in {"insert", "remove", "new_record"}
        /\ record_type = "SOA" /\ Len(records') = 1 /\ records'[1].rdata.kind = "SOA")
       => (/\ records'[1].rdata.serial >= lastSoa
           /\ (HoldsSoa /\ records' # records)
                => records'[1].rdata.serial > records[1].rdata.serial)]_vars

\* C24. The SOA-slot corruption panic is unreachable: the record stored in an
\* SOA set carries SOA rdata, so no insert that passes the assertions panics.
C24_SoaSlotHoldsSoa ==
    (record_type = "SOA")
    => (/\ \A i \in 1..Len(records) : records[i].rdata.kind = "SOA"
        /\ (op = "insert" /\ InsertAccepts) => ret # "panic")

\* C25. Class consistency: the class of every stored record is the class of
\* the set.
C25_ClassConsistent ==
    \A i \in 1..Len(records) : records[i].dns_class = dns_class

\* C26. Insert preserves the other records: in a set of a type other than SOA
\* and CNAME an insert keeps every stored record of another rdata as it is; the
\* record count grows by one when no stored record has the inserted rdata and
\* stays what it was otherwise.
C26_InsertKeepsOthers ==
    [][(/\ op' = "insert" /\ record_type \notin {"SOA", "CNAME"}
        /\ arg'.name = name /\ arg'.rr_type = record_type)
       => (/\ \A i \in 1..Len(records) :
                records[i].rdata # arg'.rdata
                => \E j \in 1..Len(records') : records'[j] = records[i]
           /\ Len(records') = Len(records)
                + (IF \E i \in 1..Len(records) : records[i].rdata = arg'.rdata THEN 0 ELSE 1))]_vars

\* a record of a new rdata was appended behind a stored record of another
\* class and ttl, which stayed as it was
C26_Witness ==
    /\ op = "insert" /\ ret = "true" /\ record_type = "NS"
    /\ prevLen = 1 /\ Len(records) = 2 /\ records[2] = arg
    /\ records[1].rdata # arg.rdata
    /\ records[1].dns_class = "CH" /\ arg.dns_class = "IN" /\ arg.ttl = 3600

\* C27. new_record stamps serial 0: a new_record that adds or replaces a record
\* leaves serial 0 and rrsigs empty; a new_record whose rdata is stored with the
\* ttl of the set and class IN changes nothing.
C27_NewRecordSerialZero ==
    [][(op' = "new_record" /\ to_record_type(arg'.rdata) = record_type)
       => (/\ records' # records => (serial' = 0 /\ rrsigs' = <<>>)
           /\ (\E i \in 1..Len(records) : records[i] = arg')
                => UNCHANGED <<records, ttl, serial, rrsigs>>)]_vars

\* C28. TCP length prefix round-trip: the two bytes written before a request
\* of length L are the big-endian bytes of L mod 65536, of L itself up to
\* 65535; the length decoded from two bytes (b0, b1) is b0*256 + b1, so that
\* decoding the bytes written for L gives L back.
C28_LengthRoundTrip ==
    /\ \A k \in 1..Len(response.stream) :
         LET w == response.stream[k] IN
         /\ w.len[1] \in 0..255 /\ w.len[2] \in 0..255
         /\ w.len[1] * 256 + w.len[2] = w.message % 65536
         /\ w.message <= 65535 => w.len[1] * 256 + w.len[2] = w.message
    /\ (tcp_call.handled = "read" /\ response.stream # <<>>)
         => LET len_bytes == response.stream[1].len IN
            /\ tcp_call.len = len_bytes[1] * 256 + len_bytes[2]
            /\ response.message <= 65535 => tcp_call.len = response.message

\* a request of 258 bytes went out behind the bytes 1, 2 and the peer's
\* answer to it was read as 258 bytes
C28_Witness ==
    /\ response.message = 258 /\ tcp_call.handled = "read"
    /\ response.stream = <<[len |-> <<1, 2>>, message |-> 258]>>
    /\ tcp_call.len = 258 /\ response.buf = <<258>>

\* C29. TcpClientConnection stays usable: once send has returned, with Ok or
\* with Err, the connection owns its socket again, and no send fails
\* expect("never none").
C29_SocketRestored ==
    /\ tcp_call.pc = "idle" => socket = "Some"
    /\ tcp_call.pc # "panic"

\* C30. One request per send: a send writes its request to the stream at most
\* once, and the handler reads whenever the events it is called with are
\* readable.
C30_OneRequestPerSend ==
    /\ Len(response.stream) <= 1
    /\ "readable" \in tcp_call.events => tcp_call.handled = "read"

\* C31. send terminates and reports the handler's outcome: every send that
\* runs the event loop eventually returns; it returns Ok only with a complete
\* response of the length decoded from the two length bytes; and it returns
\* Err whenever the handler recorded a write error, a short read, a hang-up
\* or a timeout during the call.
C31_SendReportsOutcome ==
    /\ [](tcp_call.result = "Ok" =>
            /\ response.buf = <<tcp_call.len>>
            /\ ~tcp_call.recorded)
    /\ (tcp_call.pc = "run") ~> (tcp_call.pc = "idle")
====
